---- MODULE Spec2Model ----
(***************************************************************************)
(* A model of the Simple-Catalog web server (server.js).                   *)
(*                                                                         *)
(* Strings that the code inspects (URLs, file names) are sequences of      *)
(* one-character strings, so that includes(), concatenation and the        *)
(* pathname split are computed and not assumed.  The alphabet has no '%',  *)
(* so decodeURIComponent leaves every modelled string unchanged.           *)
(*                                                                         *)
(* fs.writeFile is modelled by what Node does: the file is opened with     *)
(* flag 'w' (created or truncated to length zero), then the data is        *)
(* written.  A write issued without a callback (lines 163-164) gets        *)
(* Node's default callback, which rethrows the error.  An exception that   *)
(* no handler catches ends the process: the model follows one run of the   *)
(* process and stops there.                                                *)
(***************************************************************************)
EXTENDS Integers, Sequences, FiniteSets, TLC

MaxReq == 2     \* requests handled in one run of the server
InitCount == 1  \* the items the catalog holds when the server starts

Slots == 1..MaxReq

Undefined == "<undefined>"

(* ------------------------------ strings ------------------------------ *)

Digits == <<"0", "1", "2", "3", "4", "5", "6", "7", "8", "9">>

RECURSIVE Numeral(_)
(* Number to string, as in 'catalog/' + config.itemCount + '.json'. *)
Numeral(n) ==
  IF n < 10 THEN <<Digits[n + 1]>>
  ELSE Numeral(n \div 10) \o <<Digits[(n % 10) + 1]>>

(* String.prototype.includes *)
Includes(s, sub) ==
  \E i \in 1..(Len(s) - Len(sub) + 1) : SubSeq(s, i, i + Len(sub) - 1) = sub

(* url.parse(u).pathname: the part before the first '?' or '#'. *)
Pathname(u) ==
  LET stops == {i \in 1..Len(u) : u[i] \in {"?", "#"}}
      cut == IF stops = {} THEN Len(u) + 1
             ELSE CHOOSE i \in stops : \A j \in stops : i <= j
  IN SubSeq(u, 1, cut - 1)

P_catalog == <<"/", "c", "a", "t", "a", "l", "o", "g">>
P_upload == <<"/", "u", "p", "l", "o", "a", "d">>
P_css == <<"/", "c", "a", "t", "a", "l", "o", "g", ".", "c", "s", "s">>

E_jpg == <<".", "j", "p", "g">>
E_JPG == <<".", "J", "P", "G">>
E_jpeg == <<".", "j", "p", "e", "g">>
E_JPEG == <<".", "J", "P", "E", "G">>
E_png == <<".", "p", "n", "g">>
E_PNG == <<".", "P", "N", "G">>
E_svg == <<".", "s", "v", "g">>
E_SVG == <<".", "S", "V", "G">>
E_bmp == <<".", "b", "m", "p">>
E_BMP == <<".", "B", "M", "P">>
E_ico == <<".", "i", "c", "o">>
E_json == <<".", "j", "s", "o", "n">>

ListedExts ==
  {E_jpg, E_JPG, E_jpeg, E_JPEG, E_png, E_PNG, E_svg, E_SVG, E_bmp, E_BMP, E_ico}

(* String.prototype.endsWith *)
EndsWith(s, suf) ==
  Len(suf) <= Len(s) /\ SubSeq(s, Len(s) - Len(suf) + 1, Len(s)) = suf

(* IsImageUrl with endsWith in place of includes. *)
IsImageUrl_endsWith(u) == \E e \in ListedExts : EndsWith(u, e)

(* The condition of lines 215-220. *)
IsImageUrl(u) ==
  \/ Includes(u, E_jpg) \/ Includes(u, E_JPG)
  \/ Includes(u, E_jpeg) \/ Includes(u, E_JPEG)
  \/ Includes(u, E_png) \/ Includes(u, E_PNG)
  \/ Includes(u, E_svg) \/ Includes(u, E_SVG)
  \/ Includes(u, E_bmp) \/ Includes(u, E_BMP)
  \/ Includes(u, E_ico)

(* The handler handleRequest passes the request to. *)
Route(method, u) ==
  LET p == Pathname(u) IN
  IF p = P_catalog THEN "serveCatalog"
  ELSE IF p = P_upload THEN
    IF method = "GET" THEN "serveUploadForm"
    ELSE IF method = "POST" THEN "uploadItem"
    ELSE "none"
  ELSE IF p = P_css THEN "stylesheet"
  ELSE IF IsImageUrl(u) THEN "serveImage"
  ELSE "serveDetailedPage"

(* 'images/' + decodeURIComponent(fileName): the url starts with '/', and *)
(* 'images//x' names the file 'images/x'.                                  *)
ImagePath(u) == IF Len(u) > 0 /\ u[1] = "/" THEN Tail(u) ELSE u

(* 'catalog/' + decodeURIComponent(item + '.json') *)
ItemPath(u) == ImagePath(u \o E_json)

(* ------------------------------- JSON -------------------------------- *)

(* The properties that hold text and can be undefined (a form field that *)
(* was not sent); id and image always hold a value where they are written. *)
TextKeys == {"title", "name", "description"}

Keep(obj) == {k \in DOMAIN obj : ~(k \in TextKeys /\ obj[k] = Undefined)}

(* JSON.stringify of an object: a property whose value is undefined is left out. *)
JSONstringify(obj) == [k \in Keep(obj) |-> obj[k]]

(* Reading a property of a parsed object. *)
Prop(obj, k) == IF k \in DOMAIN obj THEN obj[k] ELSE Undefined

(* File contents: <<>> is a file of length zero, <<d>> a file holding d. *)
Bytes(b) == [bytes |-> b]
Json(t) == [json |-> t]

(* JSON.parse(fs.readFileSync(path)) succeeds *)
Parses(dir, name) ==
  /\ name \in DOMAIN dir
  /\ dir[name] # <<>>
  /\ "json" \in DOMAIN dir[name][1]

Parsed(dir, name) == dir[name][1].json

(* parseInt(config.itemCount): the counter is a non-negative integer, which *)
(* parseInt turns into a string and back.                                   *)
parseInt(n) == n

(* ----------------------------- templates ----------------------------- *)

(* template.render(name, substitutions) *)
Render(name, subs) == [template |-> name, subs |-> subs]

imageNamesToTags(items) ==
  [i \in 1..Len(items) |->
     [href |-> Prop(items[i], "id"),
      src |-> Prop(items[i], "image"),
      alt |-> Prop(items[i], "image")]]

(* ------------------------------- state ------------------------------- *)

VARIABLES
  config,      \* the config object held in memory (line 17)
  configFile,  \* the content of config.json
  catalog,     \* the files of catalog/: file name -> content
  images,      \* the files of images/: file name -> content
  writes,      \* the fs.writeFile operations in flight
  req,         \* per request: where its handling stands and what it was given
  res,         \* per request: the response object
  crashed      \* an exception was not caught: the process has ended

vars == <<config, configFile, catalog, images, writes, req, res, crashed>>

F_lamp == <<"l", ".", "p", "n", "g">>
F_none == <<>>

ItemFile(id) == Numeral(id) \o E_json
InitImage(id) == Numeral(id) \o E_png
InitItem(id) ==
  [id |-> id, name |-> "Item", description |-> "An item", image |-> InitImage(id)]

NoBody == [none |-> TRUE]
TextBody(s) == [text |-> s]
HtmlBody(page) == [html |-> page]
DataBody(content) == [data |-> content]

NoForm ==
  [wellFormed |-> TRUE, hasImage |-> FALSE, filename |-> F_none, data |-> "",
   itemName |-> Undefined, itemDescription |-> Undefined]

(* The multipart bodies a client posts. *)
Forms ==
  { [NoForm EXCEPT !.wellFormed = FALSE],
    NoForm,
    [NoForm EXCEPT !.hasImage = TRUE, !.itemName = "Lamp",
                   !.itemDescription = "A desk lamp"],
    [NoForm EXCEPT !.hasImage = TRUE, !.filename = F_lamp, !.data = "PNG",
                   !.itemName = "Lamp", !.itemDescription = "A desk lamp"] }

U_item1 == <<"/", "1">>
U_new == <<"/">> \o Numeral(InitCount + 1)
U_lamp == <<"/">> \o F_lamp

(* The requests a client sends. *)
Requests ==
  {[method |-> "GET", url |-> u, form |-> NoForm] :
      u \in {P_catalog, P_upload, P_css, U_item1, U_new, U_lamp}}
  \cup {[method |-> "PUT", url |-> P_upload, form |-> NoForm]}
  \cup {[method |-> "POST", url |-> P_upload, form |-> f] : f \in Forms}

Idle ==
  [pc |-> "free", method |-> "", url |-> <<>>, form |-> NoForm, route |-> "",
   listing |-> {}, err |-> FALSE, id |-> 0]

FreshRes == [ended |-> 0, statusCode |-> 200, body |-> NoBody]

Init ==
  LET c == InitCount IN
    /\ config = [title |-> "Catalog", itemCount |-> c]
    /\ configFile = <<Json(JSONstringify(config))>>
    /\ catalog = [f \in {ItemFile(i) : i \in 1..c} |->
                    <<Json(JSONstringify(InitItem(CHOOSE i \in 1..c : ItemFile(i) = f)))>>]
    /\ images = [f \in {InitImage(i) : i \in 1..c} |-> <<Bytes("PNG")>>]
    /\ writes = {}
    /\ req = [r \in Slots |-> Idle]
    /\ res = [r \in Slots |-> FreshRes]
    /\ crashed = FALSE

(* res.end(body), with the status code set before it *)
End(r, status, body) ==
  res' = [res EXCEPT ![r] = [ended |-> @.ended + 1, statusCode |-> status, body |-> body]]

(* An exception thrown while request r is handled reaches no handler. *)
Throw(r) ==
  /\ crashed' = TRUE
  /\ req' = [req EXCEPT ![r].pc = "threw"]

(* fs.writeFile(path, data [, callback]) as issued *)
WriteOp(r, dir, name, data, cb) ==
  [owner |-> r, dir |-> dir, name |-> name, data |-> data, opened |-> FALSE, cb |-> cb]

(* ------------------------------ handlers ----------------------------- *)

(* serveCatalog, up to the call of fs.readdir in getCatalogData *)
serveCatalog(r, rq) ==
  /\ req' = [req EXCEPT ![r] = [Idle EXCEPT !.pc = "readdir", !.method = rq.method,
                !.url = rq.url, !.form = rq.form, !.route = "serveCatalog"]]
  /\ UNCHANGED <<config, configFile, catalog, images, writes, res, crashed>>

serveUploadForm(r, rq) ==
  /\ req' = [req EXCEPT ![r] = [Idle EXCEPT !.pc = "done", !.method = rq.method,
                !.url = rq.url, !.form = rq.form, !.route = "serveUploadForm"]]
  /\ End(r, 200, HtmlBody(Render("uploadForm.html", [none |-> TRUE])))
  /\ UNCHANGED <<config, configFile, catalog, images, writes, crashed>>

(* uploadItem, up to multipart waiting for the request body *)
uploadItem(r, rq) ==
  /\ req' = [req EXCEPT ![r] = [Idle EXCEPT !.pc = "multipart", !.method = rq.method,
                !.url = rq.url, !.form = rq.form, !.route = "uploadItem"]]
  /\ UNCHANGED <<config, configFile, catalog, images, writes, res, crashed>>

(* case '/upload' with a method that is neither GET nor POST: the switch breaks *)
NoHandler(r, rq) ==
  /\ req' = [req EXCEPT ![r] = [Idle EXCEPT !.pc = "done", !.method = rq.method,
                !.url = rq.url, !.form = rq.form, !.route = "none"]]
  /\ UNCHANGED <<config, configFile, catalog, images, writes, res, crashed>>

serveStylesheet(r, rq) ==
  /\ req' = [req EXCEPT ![r] = [Idle EXCEPT !.pc = "done", !.method = rq.method,
                !.url = rq.url, !.form = rq.form, !.route = "stylesheet"]]
  /\ End(r, 200, TextBody("catalog.css"))
  /\ UNCHANGED <<config, configFile, catalog, images, writes, crashed>>

(* serveImage, up to the call of fs.readFile *)
serveImage(r, rq) ==
  /\ req' = [req EXCEPT ![r] = [Idle EXCEPT !.pc = "readImage", !.method = rq.method,
                !.url = rq.url, !.form = rq.form, !.route = "serveImage"]]
  /\ UNCHANGED <<config, configFile, catalog, images, writes, res, crashed>>

buildDetailedPage(jsonItem) ==
  Render("detailedPage.html",
         [name |-> Prop(jsonItem, "name"),
          description |-> Prop(jsonItem, "description"),
          imageTag |-> [src |-> Prop(jsonItem, "image"), alt |-> Prop(jsonItem, "image")]])

(* serveDetailedPage: readFileSync or JSON.parse throws when the file is *)
(* absent or does not hold JSON, and nothing catches it.                  *)
serveDetailedPage(r, rq) ==
  LET started == [Idle EXCEPT !.method = rq.method, !.url = rq.url,
                              !.form = rq.form, !.route = "serveDetailedPage"]
  IN
  IF Parses(catalog, ItemPath(rq.url))
  THEN /\ req' = [req EXCEPT ![r] = [started EXCEPT !.pc = "done"]]
       /\ End(r, 200, HtmlBody(buildDetailedPage(Parsed(catalog, ItemPath(rq.url)))))
       /\ UNCHANGED <<config, configFile, catalog, images, writes, crashed>>
  ELSE /\ req' = [req EXCEPT ![r] = [started EXCEPT !.pc = "threw"]]
       /\ crashed' = TRUE
       /\ UNCHANGED <<config, configFile, catalog, images, writes, res>>

(* handleRequest: the switch on the pathname *)
Dispatch(r, rq) ==
  LET h == Route(rq.method, rq.url) IN
  \/ h = "serveCatalog" /\ serveCatalog(r, rq)
  \/ h = "serveUploadForm" /\ serveUploadForm(r, rq)
  \/ h = "uploadItem" /\ uploadItem(r, rq)
  \/ h = "none" /\ NoHandler(r, rq)
  \/ h = "stylesheet" /\ serveStylesheet(r, rq)
  \/ h = "serveImage" /\ serveImage(r, rq)
  \/ h = "serveDetailedPage" /\ serveDetailedPage(r, rq)

(* A request arrives and handleRequest runs on it.  Slots are taken in order. *)
handleRequestFrom(r, inputs) ==
  /\ ~crashed
  /\ req[r].pc = "free"
  /\ \A q \in Slots : q < r => req[q].pc # "free"
  /\ \E rq \in inputs : Dispatch(r, rq)

handleRequest(r) == handleRequestFrom(r, Requests)

(* --------------------------- upload callbacks ------------------------- *)

(* uploadCallback without the test of the file name. *)
uploadCallback_noCheck(r) ==
  LET f == req[r].form IN
  IF ~f.hasImage
  THEN /\ Throw(r)
       /\ UNCHANGED <<config, configFile, catalog, images, writes, res>>
  ELSE /\ req' = [req EXCEPT ![r].pc = "imageWrite"]
       /\ writes' = writes \cup {WriteOp(r, "images", f.filename, Bytes(f.data), TRUE)}
       /\ UNCHANGED <<config, configFile, catalog, images, res, crashed>>

(* The function uploadItem gives to multipart (lines 137-147), run on the  *)
(* populated req.body: reading .filename of a field that is not in the     *)
(* body throws a TypeError.                                                 *)
uploadCallback(r) ==
  LET f == req[r].form IN
  IF ~f.hasImage
  THEN /\ Throw(r)
       /\ UNCHANGED <<config, configFile, catalog, images, writes, res>>
  ELSE IF f.filename = F_none
  THEN /\ req' = [req EXCEPT ![r].pc = "done"]
       /\ End(r, 400, TextBody("No file specified"))
       /\ UNCHANGED <<config, configFile, catalog, images, writes, crashed>>
  ELSE /\ req' = [req EXCEPT ![r].pc = "imageWrite"]
       /\ writes' = writes \cup {WriteOp(r, "images", f.filename, Bytes(f.data), TRUE)}
       /\ UNCHANGED <<config, configFile, catalog, images, res, crashed>>

(* multipart(req, res, next): the body has been read; a body that is not   *)
(* well-formed multipart is answered with a client error and next is not   *)
(* called, otherwise next runs on the parsed body.                          *)
multipart(r) ==
  /\ ~crashed
  /\ req[r].pc = "multipart"
  /\ IF ~req[r].form.wellFormed
     THEN /\ req' = [req EXCEPT ![r].pc = "done"]
          /\ End(r, 400, TextBody("Bad Request"))
          /\ UNCHANGED <<config, configFile, catalog, images, writes, crashed>>
     ELSE uploadCallback(r)

(* NewItem with name and description exchanged. *)
NewItem_swapped(id, f) ==
  [id |-> id, name |-> f.itemDescription, description |-> f.itemName,
   image |-> f.filename]

(* The item the upload creates (lines 157-162). *)
NewItem(id, f) ==
  [id |-> id, name |-> f.itemName, description |-> f.itemDescription,
   image |-> f.filename]

(* imageWritten with the counter read back from config.json instead of    *)
(* taken from memory.                                                      *)
imageWritten_fromDisk(r, w) ==
  LET count == parseInt(configFile[1].json.itemCount) + 1
      cfg == [config EXCEPT !.itemCount = count]
  IN
  /\ config' = cfg
  /\ writes' = (writes \ {w})
        \cup {WriteOp(r, "root", <<>>, Json(JSONstringify(cfg)), FALSE),
              WriteOp(r, "catalog", ItemFile(count),
                      Json(JSONstringify(NewItem(count, req[r].form))), FALSE)}
  /\ req' = [req EXCEPT ![r].pc = "readdir", ![r].id = count]
  /\ UNCHANGED <<res, crashed>>

(* The callback of the image write, without error (lines 155-165): the two *)
(* writes are issued without callbacks and serveCatalog is called at once.  *)
imageWritten(r, w) ==
  LET count == parseInt(config.itemCount) + 1
      cfg == [config EXCEPT !.itemCount = count]
  IN
  /\ config' = cfg
  /\ writes' = (writes \ {w})
        \cup {WriteOp(r, "root", <<>>, Json(JSONstringify(cfg)), FALSE),
              WriteOp(r, "catalog", ItemFile(count),
                      Json(JSONstringify(NewItem(count, req[r].form))), FALSE)}
  /\ req' = [req EXCEPT ![r].pc = "readdir", ![r].id = count]
  /\ UNCHANGED <<res, crashed>>

(* The callback of the image write, with an error (lines 148-154). *)
imageWriteFailed(r, w) ==
  /\ writes' = writes \ {w}
  /\ req' = [req EXCEPT ![r].pc = "done"]
  /\ End(r, 500, TextBody("Server Error"))
  /\ UNCHANGED <<config, crashed>>

(* ------------------------------ fs.writeFile -------------------------- *)

Store(dir, w, content) ==
  [f \in DOMAIN dir \cup {w.name} |-> IF f = w.name THEN content ELSE dir[f]]

(* The file w writes to holds `content` afterwards. *)
Put(w, content) ==
  /\ images' = IF w.dir = "images" THEN Store(images, w, content) ELSE images
  /\ catalog' = IF w.dir = "catalog" THEN Store(catalog, w, content) ELSE catalog
  /\ configFile' = IF w.dir = "root" THEN content ELSE configFile

(* Files the server reads back while a write to them may be in flight and *)
(* whose content it interprets: the item files.  For the others (the image *)
(* it serves as raw bytes, config.json it reads at startup only) the write *)
(* is one step.                                                             *)
Staged(w) == w.dir = "catalog"

(* open(path, 'w'): the file exists and is empty. *)
writeOpen(w) ==
  /\ ~crashed
  /\ w \in writes
  /\ Staged(w)
  /\ ~w.opened
  /\ Put(w, <<>>)
  /\ writes' = (writes \ {w}) \cup {[w EXCEPT !.opened = TRUE]}
  /\ UNCHANGED <<config, req, res, crashed>>

(* The data is written and the file closed; the callback, if the write has *)
(* one, is called without error.                                            *)
writeDone(w) ==
  /\ ~crashed
  /\ w \in writes
  /\ w.opened \/ ~Staged(w)
  /\ Put(w, <<w.data>>)
  /\ IF w.cb
     THEN imageWritten(w.owner, w)
     ELSE /\ writes' = writes \ {w}
          /\ UNCHANGED <<config, req, res, crashed>>

(* The write fails (on open or on write): the callback gets the error; the *)
(* default callback of a write issued without one rethrows it.              *)
writeFailed(w) ==
  /\ w \in writes
  /\ ~crashed
  /\ UNCHANGED <<configFile, catalog, images>>
  /\ IF w.cb
     THEN imageWriteFailed(w.owner, w)
     ELSE /\ crashed' = TRUE
          /\ UNCHANGED <<config, req, res, writes>>

(* ------------------------------ list page ----------------------------- *)

RECURSIVE SetToSeq(_)
(* The array fs.readdir gives: the names in some order. *)
SetToSeq(S) ==
  IF S = {} THEN <<>>
  ELSE LET x == CHOOSE y \in S : TRUE IN <<x>> \o SetToSeq(S \ {x})

(* buildCatalog: every listed file is read and parsed, then rendered. *)
buildCatalog(jsonFiles) ==
  LET items == [i \in 1..Len(jsonFiles) |-> Parsed(catalog, jsonFiles[i])]
  IN Render("catalog.html",
            [title |-> config.title, imageTags |-> imageNamesToTags(items)])

(* fs.readdir('catalog/') completes and the callback serveCatalog gave to  *)
(* getCatalogData runs (lines 30-40, 62-65), with an error or with the     *)
(* names the directory holds.  JSON.parse throws on a file of length zero, *)
(* and nothing catches it.                                                  *)
serveCatalogCallback(r) ==
  /\ ~crashed
  /\ req[r].pc = "readdir"
  /\ \/ /\ req' = [req EXCEPT ![r].pc = "done", ![r].err = TRUE]
        /\ End(r, 500, NoBody)
        /\ UNCHANGED crashed
     \/ /\ \A f \in DOMAIN catalog : Parses(catalog, f)
        /\ req' = [req EXCEPT ![r].pc = "done", ![r].listing = DOMAIN catalog]
        /\ End(r, 200, HtmlBody(buildCatalog(SetToSeq(DOMAIN catalog))))
        /\ UNCHANGED crashed
     \/ /\ ~ \A f \in DOMAIN catalog : Parses(catalog, f)
        /\ req' = [req EXCEPT ![r].pc = "threw", ![r].listing = DOMAIN catalog]
        /\ crashed' = TRUE
        /\ UNCHANGED res
  /\ UNCHANGED <<config, configFile, catalog, images, writes>>

(* ------------------------------- images ------------------------------- *)

(* The callback of fs.readFile in serveImage (lines 179-189). *)
serveImageCallback(r) ==
  /\ ~crashed
  /\ req[r].pc = "readImage"
  /\ \/ /\ ImagePath(req[r].url) \in DOMAIN images
        /\ End(r, 200, DataBody(images[ImagePath(req[r].url)]))
     \/ End(r, 404, NoBody)
  /\ req' = [req EXCEPT ![r].pc = "done"]
  /\ UNCHANGED <<config, configFile, catalog, images, writes, crashed>>

(* --------------------------- specification ---------------------------- *)

Next ==
  \/ \E r \in Slots : handleRequest(r)
  \/ \E r \in Slots : multipart(r)
  \/ \E w \in writes : writeOpen(w)
  \/ \E w \in writes : writeDone(w)
  \/ \E w \in writes : writeFailed(w)
  \/ \E r \in Slots : serveCatalogCallback(r)
  \/ \E r \in Slots : serveImageCallback(r)

Spec == Init /\ [][Next]_vars

(* ----------------------- routing on many URLs ------------------------- *)

RouteStems == {<<"/", "1">>}
RouteExts ==
  ListedExts \cup
  { <<>>, E_json, <<".", "c", "s", "s">>, <<".", "J", "p", "g">>,
    <<".", "P", "n", "g">>, <<".", "I", "C", "O">>, <<".", "j", "p">> }
RouteTails == {<<>>, E_json, <<"?", "v">>}

RouteUrls ==
  {st \o e \o t : st \in RouteStems, e \in RouteExts, t \in RouteTails}
  \cup {pth \o t : pth \in {P_catalog, P_upload, P_css}, t \in {<<"?", "v">>, E_png}}

RouteRequests ==
  Requests \cup {[method |-> "GET", url |-> u, form |-> NoForm] : u \in RouteUrls}

(* Requests of every shape arrive; handleRequest dispatches them. *)
RouteNext == \E r \in Slots : handleRequestFrom(r, RouteRequests)

RouteSpec == Init /\ [][RouteNext]_vars

(* ------------------------------- claims ------------------------------- *)

Handled(r) == req[r].pc # "free"
Finished(r) == req[r].pc \in {"done", "threw"}

(* The uploads whose image was written and that were given an id. *)
Uploads == {r \in Slots : req[r].id > 0}
OpsOf(r, dir) == {w \in writes : w.owner = r /\ w.dir = dir}
ItemWritten(r) == r \in Uploads /\ OpsOf(r, "catalog") = {}
ConfigWritten(r) == r \in Uploads /\ OpsOf(r, "root") = {}

(* What the client of r submitted, with the id the store assigned. *)
Submitted(r) ==
  [id |-> req[r].id, name |-> req[r].form.itemName,
   description |-> req[r].form.itemDescription, image |-> req[r].form.filename]

PersistedCount == configFile[1].json.itemCount
CompleteFiles == {f \in DOMAIN catalog : Parses(catalog, f)}

EmptyFilenameUpload(r) ==
  /\ req[r].route = "uploadItem"
  /\ req[r].form.wellFormed /\ req[r].form.hasImage
  /\ req[r].form.filename = F_none

(* C2: an upload whose itemImage has no filename is answered 400 "No file  *)
(* specified", and answering it changes neither the catalog files, the     *)
(* image files, config.itemCount nor config.json, and issues no write.     *)
C2_NoFileIs400 ==
  /\ [](\A r \in Slots : (EmptyFilenameUpload(r) /\ req[r].pc # "multipart") =>
          /\ res[r] = [ended |-> 1, statusCode |-> 400,
                       body |-> TextBody("No file specified")]
          /\ req[r].pc = "done"
          /\ req[r].id = 0
          /\ \A w \in writes : w.owner # r)
  /\ [][\A r \in Slots :
          (EmptyFilenameUpload(r) /\ req[r].pc = "multipart" /\ req'[r].pc # "multipart") =>
             UNCHANGED <<catalog, images, config, configFile, writes>>]_vars

C2_Witness ==
  \E r \in Slots :
    /\ EmptyFilenameUpload(r)
    /\ res[r].ended = 1 /\ res[r].statusCode = 400

(* C3: a request for the detail page of an id that has no item file is     *)
(* answered with status 404.                                               *)
C3_original ==
  \A r \in Slots :
    (/\ req[r].route = "serveDetailedPage"
     /\ ItemPath(req[r].url) \notin DOMAIN catalog) =>
       /\ res[r].ended = 1
       /\ res[r].statusCode = 404

(* C4: every request handleRequest was given gets a complete response:     *)
(* when no step of its handling is left to run, its response has been      *)
(* ended exactly once.                                                     *)
C4_original ==
  \A r \in Slots : Finished(r) => res[r].ended = 1

(* C5: no sequence of requests ends the process with an uncaught           *)
(* exception.                                                              *)
C5_original == ~crashed

RECURSIVE Hrefs(_)
Hrefs(tags) == IF tags = <<>> THEN {} ELSE {Head(tags).href} \cup Hrefs(Tail(tags))

(* C6: a GET of /catalog while the catalog directory holds N files (and    *)
(* the directory can be read) returns a page with exactly N anchors, one   *)
(* per file, whose hrefs are the N distinct ids.                           *)
C6_original ==
  \A r \in Slots :
    (req[r].route = "serveCatalog" /\ Finished(r) /\ ~req[r].err) =>
       /\ res[r].ended = 1
       /\ "html" \in DOMAIN res[r].body
       /\ LET tags == res[r].body.html.subs.imageTags IN
            /\ Len(tags) = Cardinality(req[r].listing)
            /\ Cardinality(Hrefs(tags)) = Len(tags)
            /\ {ItemFile(h) : h \in Hrefs(tags)} = req[r].listing

FixedPaths == {P_catalog, P_upload, P_css}

Lower(c) ==
  CASE c = "J" -> "j" [] c = "P" -> "p" [] c = "G" -> "g" [] c = "E" -> "e"
    [] c = "N" -> "n" [] c = "S" -> "s" [] c = "V" -> "v" [] c = "B" -> "b"
    [] c = "M" -> "m" [] c = "I" -> "i" [] c = "C" -> "c" [] c = "O" -> "o"
    [] OTHER -> c
LowerCase(s) == [i \in 1..Len(s) |-> Lower(s[i])]

(* The path ends in jpg, jpeg, png, svg, bmp or ico, in any letter case. *)
EndsInImageExt(pth) ==
  \E e \in {E_jpg, E_jpeg, E_png, E_svg, E_bmp, E_ico} : EndsWith(LowerCase(pth), e)

(* C7, as stated: a request whose path is none of /catalog, /upload,      *)
(* /catalog.css goes to the image handler if and only if its path ends in *)
(* an image extension written in any letter case, else to the detail      *)
(* handler.                                                                *)
C7_original ==
  \A r \in Slots :
    (Handled(r) /\ Pathname(req[r].url) \notin FixedPaths) =>
      /\ req[r].route \in {"serveImage", "serveDetailedPage"}
      /\ req[r].route = "serveImage" <=> EndsInImageExt(Pathname(req[r].url))

(* C7, amended: such a request goes to the image handler if and only if   *)
(* its URL, query string included, contains one of the strings .jpg .JPG  *)
(* .jpeg .JPEG .png .PNG .svg .SVG .bmp .BMP .ico anywhere, and to the    *)
(* detail handler otherwise.                                               *)
C7_RoutesBySubstring ==
  \A r \in Slots :
    (Handled(r) /\ Pathname(req[r].url) \notin FixedPaths) =>
      /\ req[r].route \in {"serveImage", "serveDetailedPage"}
      /\ req[r].route = "serveImage" <=>
           \E e \in ListedExts : \E i \in 1..Len(req[r].url) :
              /\ i + Len(e) - 1 <= Len(req[r].url)
              /\ \A j \in 1..Len(e) : req[r].url[i + j - 1] = e[j]

(* A URL with an image extension in the middle has gone to the image      *)
(* handler, and one with a mixed-case extension at its end to the detail  *)
(* handler.                                                                *)
C7_Witness ==
  /\ \E r \in Slots :
       /\ req[r].route = "serveImage"
       /\ ~EndsInImageExt(Pathname(req[r].url))
  /\ \E r \in Slots :
       /\ req[r].route = "serveDetailedPage"
       /\ EndsInImageExt(Pathname(req[r].url))


(* C8: the uploads that were given ids, in whatever order their callbacks  *)
(* ran, hold exactly the ids c+1 .. c+k, no two the same; no two item      *)
(* writes go to one file, and every item file keeps the item of the        *)
(* upload (or of the initial catalog) that wrote it.                       *)
C8_UniqueSequentialIds ==
  /\ \A r1, r2 \in Uploads : r1 # r2 => req[r1].id # req[r2].id
  /\ {req[r].id : r \in Uploads} = (InitCount + 1)..(InitCount + Cardinality(Uploads))
  /\ \A w1, w2 \in writes :
       (w1.dir = "catalog" /\ w2.dir = "catalog" /\ w1.owner # w2.owner) =>
          w1.name # w2.name
  /\ \A r \in Slots : ItemWritten(r) =>
       /\ Parses(catalog, ItemFile(req[r].id))
       /\ Parsed(catalog, ItemFile(req[r].id)).id = req[r].id
  /\ \A i \in 1..InitCount :
       /\ Parses(catalog, ItemFile(i))
       /\ Parsed(catalog, ItemFile(i)) = JSONstringify(InitItem(i))

(* Two uploads have their item writes in flight at the same time. *)
C8_Witness ==
  \E r1, r2 \in Uploads :
    /\ r1 # r2
    /\ OpsOf(r1, "catalog") # {} /\ OpsOf(r2, "catalog") # {}

(* C9: when the response of a successful upload is produced, the new       *)
(* item's file has been written and the page lists the new item.           *)
C9_original ==
  \A r \in Uploads :
    (req[r].route = "uploadItem" /\ res[r].ended >= 1 /\ res[r].statusCode = 200) =>
       /\ ItemWritten(r)
       /\ "html" \in DOMAIN res[r].body
       /\ req[r].id \in Hrefs(res[r].body.html.subs.imageTags)

(* C10: the itemCount persisted in config.json never decreases, and once   *)
(* no write is pending it is at least the id of every item file.           *)
C10_original ==
  /\ [][PersistedCount' >= PersistedCount]_vars
  /\ [](writes = {} =>
          \A f \in CompleteFiles : Parsed(catalog, f).id <= PersistedCount)

====
